---- MODULE Spec2Model ----
(***************************************************************************)
(* The RubiTrail Telegram Mini-App front end as a state machine.           *)
(*                                                                         *)
(* The repository holds six revisions of the same page script.  The       *)
(* variable rev says which one is loaded:                                  *)
(*   "F"   src/frontend/script.js          (setActiveTab, map)             *)
(*   "P0a" src/unnamed/part_000:1-258      (initData only, switchTab)      *)
(*   "P0b" src/unnamed/part_000:259-774    (rewards list, redeemCode)      *)
(*   "P0c" src/unnamed/part_000:775-1072   (ensureAuth)                    *)
(*   "P1"  src/unnamed/part_001            (hard-coded telegram_id)        *)
(*   "P2"  src/unnamed/part_002            (browser fallback id)           *)
(*                                                                         *)
(* JavaScript runs one event at a time: an action of the model is the code *)
(* that runs from one event (page load, click, timer, animation frame,     *)
(* promise settlement) up to the next await.  Functions of the scripts are *)
(* operators on a record s of the mutable state, so that a handler that    *)
(* calls stopCamera, alert, fetch, startCamera in a row is one action.     *)
(* The markup is not part of src/; it is taken to hold the elements the    *)
(* scripts look up (#loading, .coin-balance, .scan-text, #scan-view,       *)
(* #rewards-list, one nav item per view); #map may be there or not.        *)
(***************************************************************************)
EXTENDS Integers, Sequences, FiniteSets, TLC

VARIABLES
  rev,          \* which revision of the script is loaded
  tg,           \* the Telegram context of the page load
  startParam,   \* tg.initDataUnsafe.start_param (deep link), a payload
  view,         \* id of the .view-section that has class "active"
  booted,       \* DOMContentLoaded handler: "no", "auth" (awaiting), "done"
  authToken,    \* let authToken
  coinDisplay,  \* number shown in .coin-balance / #coin-count
  loading,      \* #loading has class "active"
  localStream,  \* let localStream: 0 (null/undefined) or a stream id
  live,         \* ids of acquired media streams whose tracks are not stopped
  scanning,     \* let scanning
  rafPending,   \* pending requestAnimationFrame(scanLoop) callbacks
  gumPending,   \* startCamera calls awaiting getUserMedia
  timers,       \* pending switchTab timeouts, in firing order (view ids)
  tasks,        \* requests in flight with the handler awaiting each
  storage,      \* localStorage["web_user_id"] ("" when absent)
  sessionKeys,  \* start params p with sessionStorage["redeemed:"+p] set
  scanText,     \* .scan-text: "idle" (markup), "align", "error" (class error)
  loads,        \* how many times the page was loaded on this storage
  navActive,    \* data-view of the nav items that have class "active"
  cards,        \* data-reward-id of the BUY buttons rendered in #rewards-list
  hasMap,       \* the markup has an element with id "map"
  leafletMap,   \* let leafletMap: 0 (null) or the number of the L.map made
  leafletMarkers, \* let leafletMarkers: how many markers it holds
  mapReady,     \* let mapReady
  rewardModalOpen, \* let rewardModalOpen / data-open of #reward-modal (P1)
  track,        \* history is kept (only in the specification that reads it)
  told,         \* history: the balance carried by the answer, among those
                \* received, to the request that was dispatched last
  behind,       \* history: how many requests in flight are older than that
  failed,       \* history: a redemption of start_param failed in this session
  shown,        \* alerts shown by the last event, in order
  sent          \* requests dispatched by the last event, in order

vars == <<rev, tg, startParam, view, booted, authToken, coinDisplay, loading,
          localStream, live, scanning, rafPending, gumPending, timers, tasks,
          storage, sessionKeys, scanText, loads, navActive, cards, hasMap,
          leafletMap, leafletMarkers, mapReady, rewardModalOpen, track, told,
          behind, failed, shown, sent>>

---------------------------------------------------------------------------
(* Bounds of the model. *)
MaxCoins == 1
MaxAdded == 1
MaxStreams == 2
MaxGum == 2
MaxRaf == 2
MaxTasks == 2
MaxTimers == 2
MaxLoads == 3
MaxPending == 2
MaxMaps == 2

\* MAP_POINTS has six entries in the three revisions that draw a map.
MapPoints == 6

---------------------------------------------------------------------------
(* Values. *)
Revs == {"F", "P0a", "P0b", "P0c", "P1", "P2"}

\* Revisions whose tabs are switched by setActiveTab (the others: switchTab).
SetActiveTabRevs == {"F", "P0b"}

\* window.Telegram.WebApp: absent or without initData (every revision treats
\* the two alike); with initData but no user; with initData and user.id.
TgContexts == {"none", "dataonly", "full"}
HasInitData(t) == t \in {"dataonly", "full"}
HasUserId(t) == t = "full"

Views == {"scan-view", "rewards-view", "map-view"}

\* The views a revision tells apart: the scan view, the rewards view where
\* it loads the list (P0b), the map view where it builds a map (F, P0b, P1),
\* and one other view.
ViewsOf(r) ==
  CASE r = "P0b" -> Views
    [] r \in {"F", "P1"} -> {"scan-view", "map-view"}
    [] OTHER -> {"scan-view", "rewards-view"}

\* The Telegram contexts a revision tells apart.
ContextsOf(r) ==
  CASE r \in {"F", "P0a", "P0b", "P0c"} -> TgContexts
    [] r = "P1" -> {"none"}
    [] OTHER -> {"none", "full"}

\* JavaScript null and undefined, and the string String(undefined).
NullVal == "<null>"
UndefinedVal == "<undefined>"
Tokens == {"t1"}
Truthy(x) == x \notin {NullVal, UndefinedVal, ""}
String(x) == IF x = UndefinedVal THEN "undefined" ELSE x

\* A number slot holding undefined (it renders as "undefined").
UndefinedNum == 0 - 1
Balances == 0 .. MaxCoins
AddedCoins == 0 .. MaxAdded

\* Text decoded from a QR code or passed as start_param: strings over a
\* blank and a letter (empty, blank only, not blank).
Payloads == {<<>>, <<" ">>, <<"a">>}
StartParams == {<<>>, <<" ">>, <<"a">>}

\* String.prototype.trim.
RECURSIVE TrimLeft(_)
TrimLeft(str) ==
  IF str # <<>> /\ Head(str) = " " THEN TrimLeft(Tail(str)) ELSE str

RECURSIVE TrimRight(_)
TrimRight(str) ==
  IF str # <<>> /\ str[Len(str)] = " "
  THEN TrimRight(SubSeq(str, 1, Len(str) - 1))
  ELSE str

Trim(str) == TrimRight(TrimLeft(str))

\* a || b || c on strings, "" standing for a missing or empty field.
Or2(a, b) == IF a # "" THEN a ELSE b
Or3(a, b, c) == Or2(a, Or2(b, c))

---------------------------------------------------------------------------
(* What the network can answer.  kind "reject": fetch rejects.  body:      *)
(* "json" (an object with the fields below), "text" (not JSON), "empty".   *)
Resp(kind, ok, body, success, message, error, token, coins, nb, k, voucher) ==
  [kind |-> kind, ok |-> ok, body |-> body, success |-> success,
   message |-> message, error |-> error, token |-> token, coins |-> coins,
   newBalance |-> nb, addedCoins |-> k, voucher |-> voucher]

Rejected ==
  Resp("reject", FALSE, "empty", FALSE, "", "", UndefinedVal, UndefinedNum,
       UndefinedNum, UndefinedNum, FALSE)

NotJson ==
  {Resp("http", o, b, FALSE, "", "", UndefinedVal, UndefinedNum,
        UndefinedNum, UndefinedNum, FALSE) :
     o \in BOOLEAN, b \in {"text", "empty"}}

Messages == {"", "Already scanned"}
Errors == {"", "Server error"}

\* POST /auth/telegram -> {token, user: {coins}} or {error}.
AuthResps ==
  {Rejected} \cup {r \in NotJson : r.body = "text"}
  \cup {Resp("http", TRUE, "json", FALSE, "", "", t, c, UndefinedNum,
             UndefinedNum, FALSE) :
          t \in Tokens \cup {UndefinedVal}, c \in Balances \cup {UndefinedNum}}
  \cup {Resp("http", FALSE, "json", FALSE, "", e, t, UndefinedNum,
             UndefinedNum, UndefinedNum, FALSE) :
          e \in Errors, t \in Tokens \cup {UndefinedVal}}

\* POST /api/attractions/scan -> {success, addedCoins, newBalance, message}.
ScanResps ==
  {Rejected} \cup NotJson
  \cup {Resp("http", TRUE, "json", TRUE, "", "", UndefinedVal, UndefinedNum,
             b, k, FALSE) :
          b \in Balances \cup {UndefinedNum}, k \in AddedCoins}
  \cup {Resp("http", o, "json", FALSE, m, e, UndefinedVal, UndefinedNum,
             UndefinedNum, UndefinedNum, FALSE) :
          o \in BOOLEAN, m \in Messages, e \in Errors}

\* POST /api/rewards/{id}/buy -> {success, newBalance, voucher, message}.
BuyResps ==
  {Rejected} \cup {r \in NotJson : r.body = "text"}
  \cup {Resp("http", TRUE, "json", TRUE, "", "", UndefinedVal, UndefinedNum,
             b, UndefinedNum, v) :
          b \in Balances \cup {UndefinedNum}, v \in BOOLEAN}
  \cup {Resp("http", o, "json", FALSE, m, "", UndefinedVal, UndefinedNum,
             UndefinedNum, UndefinedNum, FALSE) :
          o \in BOOLEAN, m \in Messages}

\* data.rewards of an answer of /api/rewards: the ids of the rewards, in
\* order.
Catalogs == {<<>>, <<"r1", "r2">>}

\* The answer r with the field rewards.
WithRewards(r, c) == [rewards |-> c] @@ r

\* GET /api/rewards -> {rewards, userCoins} or {error}.
RewardsResps ==
  {WithRewards(r, <<>>) :
     r \in {Rejected} \cup {n \in NotJson : n.body = "text"}}
  \cup {WithRewards(Resp("http", TRUE, "json", FALSE, "", "", UndefinedVal, c,
                         UndefinedNum, UndefinedNum, FALSE), g) :
          c \in Balances \cup {UndefinedNum}, g \in Catalogs}
  \cup {WithRewards(Resp("http", FALSE, "json", FALSE, "", e, UndefinedVal,
                         UndefinedNum, UndefinedNum, UndefinedNum, FALSE),
                    <<>>) : e \in Errors}

\* res.json() succeeds.
JsonOk(r) == r.kind = "http" /\ r.body = "json"

\* A request in flight and the handler that awaits it.  kind: the endpoint
\* ("auth", "scan", "buy", "rewards"); caller: who continues after it;
\* arg: the payload or reward id the continuation needs.
Task(kind, caller, arg) == [kind |-> kind, caller |-> caller, arg |-> arg]

Alert(kind, text) == [kind |-> kind, text |-> text]
Request(ep, bearer, body) == [ep |-> ep, bearer |-> bearer, body |-> body]

---------------------------------------------------------------------------
(* The mutable state as a record, and the functions of the scripts as      *)
(* operators from records to records.                                      *)
St ==
  [view |-> view, booted |-> booted, authToken |-> authToken,
   coinDisplay |-> coinDisplay, loading |-> loading,
   localStream |-> localStream, live |-> live, scanning |-> scanning,
   rafPending |-> rafPending, gumPending |-> gumPending, timers |-> timers,
   tasks |-> tasks, storage |-> storage, sessionKeys |-> sessionKeys,
   scanText |-> scanText, navActive |-> navActive, cards |-> cards,
   leafletMap |-> leafletMap, leafletMarkers |-> leafletMarkers,
   mapReady |-> mapReady, rewardModalOpen |-> rewardModalOpen,
   told |-> told, behind |-> behind, failed |-> failed,
   shown |-> <<>>, sent |-> <<>>]

alert(s, kind, text) == [s EXCEPT !.shown = Append(@, Alert(kind, text))]

showLoading(s) == [s EXCEPT !.loading = TRUE]

hideLoading(s) == [s EXCEPT !.loading = FALSE]

\* "Authorization": "Bearer " + authToken
getAuthHeaders(s) == s.authToken

\* fetch(...): the request leaves now; the caller awaits the answer.
fetch(s, ep, bearer, body, task) ==
  [s EXCEPT !.sent = Append(@, Request(ep, bearer, body)),
            !.tasks = Append(@, task)]

\* .coin-balance innerHTML = `${value} ...`
showBalance(s, value) == [s EXCEPT !.coinDisplay = value]

\* setCoinBalance (P0b): value ?? 0
setCoinBalance(s, value) ==
  showBalance(s, IF value = UndefinedNum THEN 0 ELSE value)

\* updateCoins (P2)
updateCoins(s, coins) == showBalance(s, coins)

\* startCamera up to its await: getUserMedia is requested.
startCamera(s) == [s EXCEPT !.gumPending = @ + 1]

\* stopCamera releasing the stream without clearing the scanning flag.
stopCamera_flag_kept(s) ==
  [s EXCEPT !.live = IF s.localStream # 0 THEN @ \ {s.localStream} ELSE @,
            !.localStream = 0]

\* stopCamera: the scanning flag is cleared and the tracks of the stream
\* localStream refers to are stopped.
stopCamera(s) ==
  [s EXCEPT !.scanning = FALSE,
            !.live = IF s.localStream # 0 THEN @ \ {s.localStream} ELSE @,
            !.localStream = 0]

\* requestAnimationFrame(scanLoop)
requestFrame(s) == [s EXCEPT !.rafPending = @ + 1]

---------------------------------------------------------------------------
(* Scan submission. *)

\* handleQRCode / buyReward / click handler: the session is unauthenticated.
NotAuthenticated(s) == ~Truthy(s.authToken)

\* The POST to /api/attractions/scan and the await on it.
postScan(s, body, caller) ==
  fetch(showLoading(s), "scan", getAuthHeaders(s), body,
        Task("scan", caller, body))

\* redeemCode (P0b) up to its await.
redeemCode(s, code, source) ==
  LET payload == Trim(code) IN
  IF payload = <<>> THEN s
  ELSE IF NotAuthenticated(s)
  THEN alert(s, "not-authenticated", "Not authenticated yet.")
  ELSE postScan(s, payload, source)

\* handleQRCode_F with the unauthenticated case returning silently.
handleQRCode_F_silent(s, decodedText) ==
  LET payload == Trim(decodedText) IN
  IF payload = <<>> \/ NotAuthenticated(s) THEN s
  ELSE postScan(s, payload, "qr")

\* handleQRCode of F and P0a up to its await.
handleQRCode_F(s, decodedText) ==
  LET payload == Trim(decodedText) IN
  IF payload = <<>> THEN s
  ELSE IF NotAuthenticated(s)
  THEN alert(s, "not-authenticated",
             "Not authenticated yet. Open the app as a Telegram Mini App.")
  ELSE postScan(s, payload, "qr")

\* handleQRCode of P0b: stop, await redeemCode, start the camera again.  When
\* redeemCode returns without a request the await ends in the same event.
handleQRCode_P0b(s, decodedText) ==
  LET payload == Trim(decodedText)
      s1 == redeemCode(stopCamera([s EXCEPT !.scanning = FALSE]), payload, "qr")
  IN IF payload = <<>> THEN s
     ELSE IF s1.sent = s.sent THEN startCamera(s1)
     ELSE s1

\* handleQRCode of P0c and P1 after ensureAuth / the retried initAuth.
handleQRCode_authed(s, text) ==
  IF NotAuthenticated(s)
  THEN alert(s, "not-authenticated",
             IF rev = "P1" THEN "Not authenticated yet. Try reloading the page."
             ELSE "Not authenticated yet. Reload the page.")
  ELSE postScan(s, text, "qr")

\* handleQRCode of P2 (no try/catch, no trim).
handleQRCode_P2(s, qrText) ==
  IF NotAuthenticated(s)
  THEN alert(s, "not-authenticated", "Not authenticated yet. Reload the page.")
  ELSE postScan(s, qrText, "qr")

---------------------------------------------------------------------------
(* Purchase. *)

\* The POST to /api/rewards/{id}/buy and the await on it.
postBuy(s, rewardId) ==
  fetch(showLoading(s), "buy", getAuthHeaders(s), rewardId,
        Task("buy", "click", rewardId))

\* The click handler without its check of authToken.
buyClick_inline_unchecked(s, rewardId) ==
  IF rewardId = <<>> THEN alert(s, "missing-reward-id", "")
  ELSE postBuy(s, rewardId)

\* The delegated .btn-buy click handler of P0a, P0b and P1.
buyClick_inline(s, rewardId) ==
  IF NotAuthenticated(s)
  THEN alert(s, "not-authenticated", "Not authenticated yet.")
  ELSE IF rewardId = <<>> THEN alert(s, "missing-reward-id", "")
  ELSE postBuy(s, rewardId)

\* buyReward without its check of authToken.
buyReward_unchecked(s, rewardId) == postBuy(s, rewardId)

\* buyReward of P0c (after ensureAuth) and of P2.
buyReward(s, rewardId) ==
  IF NotAuthenticated(s)
  THEN alert(s, "not-authenticated",
             IF rev = "P2" THEN "Not authenticated yet. Reload the page."
             ELSE "Not authenticated yet.")
  ELSE postBuy(s, rewardId)

---------------------------------------------------------------------------
(* Rewards list (P0b). *)

\* loadRewards up to its await.  Without a token the list is replaced by
\* "Not authenticated yet." and nothing is requested.
loadRewards(s) ==
  IF NotAuthenticated(s) THEN [s EXCEPT !.cards = <<>>]
  ELSE fetch(showLoading(s), "rewards", getAuthHeaders(s), <<>>,
             Task("rewards", "load", <<>>))

---------------------------------------------------------------------------
(* Tabs. *)

\* renderMapPoints(MAP_POINTS): the markers held are removed and one marker
\* per point is pushed.
renderMapPoints(s) == [s EXCEPT !.leafletMarkers = MapPoints]

\* initMapOnce building a map on every call.
initMapOnce_always(s) ==
  IF ~hasMap THEN s
  ELSE [renderMapPoints([s EXCEPT !.leafletMap = @ + 1])
          EXCEPT !.mapReady = TRUE]

\* initMapOnce (F, P0b, P1).  The invalidateSize timeouts change nothing the
\* scripts read and are left out.
initMapOnce(s) ==
  IF s.mapReady THEN s
  ELSE IF ~hasMap THEN s
  ELSE [renderMapPoints([s EXCEPT !.leafletMap = @ + 1])
          EXCEPT !.mapReady = TRUE]

\* setActiveTab toggling the sections only.
setActiveTab_sections(s, viewId) ==
  LET s1 == [s EXCEPT !.view = viewId]
      s2 == IF viewId = "scan-view" THEN startCamera(s1) ELSE stopCamera(s1)
      s3 == IF rev = "P0b" /\ viewId = "rewards-view" THEN loadRewards(s2)
            ELSE s2
  IN IF viewId = "map-view" THEN initMapOnce(s3) ELSE s3

\* setActiveTab (F, P0b): each section and each nav item is toggled on
\* whether it is the one of viewId.
setActiveTab(s, viewId) ==
  LET s1 == [s EXCEPT !.view = viewId, !.navActive = {viewId}]
      s2 == IF viewId = "scan-view" THEN startCamera(s1) ELSE stopCamera(s1)
      s3 == IF rev = "P0b" /\ viewId = "rewards-view" THEN loadRewards(s2)
            ELSE s2
  IN IF viewId = "map-view" THEN initMapOnce(s3) ELSE s3

\* switchTab: the overlay is shown and the switch is left to a timer.
switchTab(s, viewId) ==
  [showLoading(s) EXCEPT !.timers = Append(@, viewId)]

\* The timeout body of switchTab leaving the overlay as it is.
switchTabTimeout_overlay(s, viewId) ==
  LET s1 == [s EXCEPT !.view = viewId, !.navActive = {viewId},
                      !.timers = Tail(@)]
  IN IF viewId = "scan-view" THEN startCamera(s1) ELSE stopCamera(s1)

\* The timeout body of switchTab; navElement is the nav item of viewId.
switchTabTimeout(s, viewId) ==
  LET s1 == [s EXCEPT !.view = viewId, !.navActive = {viewId},
                      !.timers = Tail(@)]
      s2 == IF viewId = "scan-view" THEN startCamera(s1) ELSE stopCamera(s1)
      s3 == IF rev = "P1" /\ viewId = "map-view" THEN initMapOnce(s2) ELSE s2
  IN hideLoading(s3)

---------------------------------------------------------------------------
(* Identity bootstrap. *)

\* initAuth never returning early.
LoginNeverMissing(t) == FALSE

\* initAuth returns early, with an alert, for want of Telegram login data.
LoginMissing(t) ==
  CASE rev \in {"F", "P0b"} -> ~(HasInitData(t) /\ HasUserId(t))
    [] rev = "P0a" -> ~HasInitData(t)
    [] rev = "P0c" -> ~(t # "none" /\ HasInitData(t))
    [] OTHER -> FALSE

\* initAuth generating a new id whenever there is no Telegram user.
AuthId_fresh(s, gen) == IF HasUserId(tg) THEN <<"tg-user">> ELSE <<gen>>

\* The identifier initAuth sends: the Telegram user id, the initData, the
\* hard-coded id, or (P2) the stored or newly generated web_user_id.
AuthId(s, gen) ==
  CASE rev \in {"F", "P0b"} -> <<"tg-user">>
    [] rev \in {"P0a", "P0c"} -> <<"initData">>
    [] rev = "P1" -> <<"6732377993">>
    [] OTHER -> IF HasUserId(tg) THEN <<"tg-user">>
                ELSE IF s.storage # "" THEN <<s.storage>>
                ELSE <<gen>>

\* The DOMContentLoaded handler after await initAuth().
bootContinue(s) ==
  LET s1 == [s EXCEPT !.booted = "done"] IN
  IF rev \in SetActiveTabRevs
  THEN startCamera(setActiveTab(s1, "scan-view"))
  ELSE IF s1.view = "scan-view" THEN startCamera(s1) ELSE s1

\* What runs when the initAuth a handler awaited has returned.
AfterInitAuth(s, caller, arg) ==
  CASE caller = "boot" -> bootContinue(s)
    [] caller = "scan" -> handleQRCode_authed(s, arg)
    [] caller = "buy" -> buyReward(s, arg)

\* The deep link redeemed whatever sessionStorage holds.
redeemStartParam_always(s) ==
  IF HasInitData(tg) /\ startParam # <<>>
  THEN redeemCode([s EXCEPT !.sessionKeys = @ \cup {startParam}],
                  startParam, "nfc")
  ELSE s

\* The deep link redeemed without the marker being written.
redeemStartParam_unmarked(s) ==
  IF HasInitData(tg) /\ startParam # <<>> /\ startParam \notin s.sessionKeys
  THEN redeemCode(s, startParam, "nfc")
  ELSE s

\* The deep link of P0b: redeem start_param once per session.
redeemStartParam(s) ==
  IF HasInitData(tg) /\ startParam # <<>> /\ startParam \notin s.sessionKeys
  THEN redeemCode([s EXCEPT !.sessionKeys = @ \cup {startParam}],
                  startParam, "nfc")
  ELSE s

\* initAuth leaving the displayed balance alone.
showAuthBalance_skip(s, r) == s

\* The balance initAuth shows from the answer: data.user.coins.
showAuthBalance(s, r) ==
  CASE rev = "P0b" ->
         IF r.coins # UndefinedNum THEN setCoinBalance(s, r.coins) ELSE s
    [] rev = "P2" ->
         updateCoins(s, IF r.coins = UndefinedNum THEN 0 ELSE r.coins)
    [] OTHER ->
         IF r.coins # UndefinedNum THEN showBalance(s, r.coins) ELSE s

\* The token initAuth keeps: data.token, or String(data.token) (P0c, P2).
tokenOf(r) == IF rev \in {"P0c", "P2"} THEN String(r.token) ELSE r.token

\* The alert of initAuth for a response that is not ok.
authFailedText(r) ==
  CASE rev = "P0a" -> "Telegram auth failed. Check backend logs."
    [] rev = "P2" -> "Auth failed"
    [] rev = "P0c" ->
         Or2(r.error, "Auth failed (backend rejected Telegram initData).")
    [] OTHER -> Or2(r.error, "Telegram auth failed. Check backend logs.")

\* initAuth from the answer of /auth/telegram to its return.  A rejected
\* fetch and a body that is not JSON end in the catch block; P1 does not
\* look at res.ok.
initAuthAnswer(s, r) ==
  IF ~JsonOk(r) THEN alert(s, "auth-connect", "")
  ELSE IF rev # "P1" /\ ~r.ok THEN alert(s, "auth-failed", authFailedText(r))
  ELSE LET s1 == showAuthBalance([s EXCEPT !.authToken = tokenOf(r)], r)
       IN IF rev = "P0b" THEN redeemStartParam(s1) ELSE s1

\* initAuth up to its await, called by caller; when it returns at once the
\* caller continues in the same event.
initAuth(s, caller, arg, gen) ==
  IF LoginMissing(tg)
  THEN AfterInitAuth(alert(s, "auth-nologin", ""), caller, arg)
  ELSE LET id == AuthId(s, gen)
           s1 == IF rev = "P2" /\ ~HasUserId(tg) /\ s.storage = ""
                 THEN [s EXCEPT !.storage = gen] ELSE s
       IN fetch(s1, "auth", NullVal, id, Task("auth", caller, arg))

\* ensureAuth calling initAuth whether or not a token is held.
ensureAuth_always(s, caller, arg) == initAuth(s, caller, arg, "")

\* ensureAuth (P0c), then the caller's continuation.
ensureAuth(s, caller, arg) ==
  IF Truthy(s.authToken) THEN AfterInitAuth(s, caller, arg)
  ELSE initAuth(s, caller, arg, "")

\* handleQRCode of P0c.
handleQRCode_P0c(s, decodedText) == ensureAuth(s, "scan", decodedText)

\* handleQRCode of P1: initAuth is tried again when there is no token.
handleQRCode_P1(s, decodedText) ==
  LET payload == Trim(decodedText) IN
  IF payload = <<>> THEN s
  ELSE IF NotAuthenticated(s) THEN initAuth(s, "scan", payload, "")
  ELSE postScan(s, payload, "qr")

handleQRCode(s, decodedText) ==
  CASE rev \in {"F", "P0a"} -> handleQRCode_F(s, decodedText)
    [] rev = "P0b" -> handleQRCode_P0b(s, decodedText)
    [] rev = "P0c" -> handleQRCode_P0c(s, decodedText)
    [] rev = "P1" -> handleQRCode_P1(s, decodedText)
    [] rev = "P2" -> handleQRCode_P2(s, decodedText)

---------------------------------------------------------------------------
\* The balance computed as the shown balance plus data.addedCoins.
scanBalance_added(s, r) == showBalance(s, s.coinDisplay + r.addedCoins)

\* The balance shown from an accepted scan: data.newBalance.
scanBalance(s, r) ==
  CASE rev = "P0b" ->
         IF r.newBalance # UndefinedNum THEN setCoinBalance(s, r.newBalance)
         ELSE s
    [] rev = "P2" -> updateCoins(s, r.newBalance)
    [] OTHER -> showBalance(s, r.newBalance)

(* Answers of the scan endpoint: each handleQRCode / redeemCode from the   *)
(* settlement of its fetch to its return.  t is the awaiting task.         *)

\* handleQRCode posting the payload again when the scan did not succeed.
scanAnswer_F_retry(s, t, r) ==
  IF JsonOk(r) /\ r.ok /\ r.success
  THEN startCamera(alert(scanBalance(hideLoading(s), r), "scan-ok", ""))
  ELSE postScan(alert(hideLoading(s), "scan-failed", ""), t.arg, "qr")

\* F and P0a.
scanAnswer_F(s, t, r) ==
  IF ~JsonOk(r)
  THEN startCamera(alert(hideLoading(s), "scan-network", ""))
  ELSE IF ~r.ok \/ ~r.success
  THEN startCamera(alert(hideLoading(s), "scan-failed",
                         Or3(r.message, r.error, "Scan failed")))
  ELSE startCamera(alert(scanBalance(hideLoading(s), r), "scan-ok", ""))

\* redeemCode preferring the error field to the message field.
redeemDetails_error_first(r) ==
  IF JsonOk(r) THEN Or3(r.error, r.message, "<raw body>")
  ELSE IF r.body = "text" THEN "<raw body>"
  ELSE "HTTP <status>"

\* The failure text of redeemCode (P0b): (data && (data.message ||
\* data.error)) || rawText || `HTTP ${res.status}`.  The text of a JSON body
\* is never empty.
redeemDetails(r) ==
  IF JsonOk(r) THEN Or3(r.message, r.error, "<raw body>")
  ELSE IF r.body = "text" THEN "<raw body>"
  ELSE "HTTP <status>"

\* P0b: redeemCode, then the rest of handleQRCode when it was the caller.
scanAnswer_P0b(s, t, r) ==
  LET s1 == hideLoading(s)
      s2 == IF r.kind = "reject" THEN alert(s1, "scan-network", "")
            ELSE IF ~r.ok \/ ~(JsonOk(r) /\ r.success)
            THEN alert(s1, "scan-failed", redeemDetails(r))
            ELSE alert(scanBalance(s1, r), "scan-ok", "")
  IN IF t.caller = "qr" THEN startCamera(s2) ELSE s2

\* P0c.
scanAnswer_P0c(s, t, r) ==
  LET s1 == hideLoading(s) IN
  IF ~JsonOk(r) THEN alert(s1, "scan-network", "")
  ELSE IF ~r.ok
  THEN alert(s1, "scan-failed", Or3(r.message, r.error, "Unknown error"))
  ELSE IF r.success
  THEN alert(scanBalance(s1, r), "scan-ok", r.message)
  ELSE alert(s1, "scan-failed", Or2(r.message, "undefined"))

\* P1: an empty body parses to {}; success:false falls through silently.
scanAnswer_P1(s, t, r) ==
  LET s1 == hideLoading(s) IN
  IF r.kind = "reject" \/ r.body = "text" THEN alert(s1, "scan-network", "")
  ELSE IF ~r.ok
  THEN alert(s1, "scan-failed", Or3(r.message, r.error, "HTTP <status>"))
  ELSE IF r.success
  THEN startCamera(alert(scanBalance(s1, r), "scan-ok", ""))
  ELSE s1

\* P2: no try/catch (a rejected fetch ends the handler), a body that is not
\* JSON reads as {}, and only res.ok is looked at.
scanAnswer_P2(s, t, r) ==
  IF r.kind = "reject" THEN s
  ELSE IF ~r.ok
  THEN alert(hideLoading(s), "scan-failed", Or2(r.message, "Scan failed"))
  ELSE alert(scanBalance(hideLoading(s), r), "scan-ok", "")

scanAnswer(s, t, r) ==
  CASE rev \in {"F", "P0a"} -> scanAnswer_F(s, t, r)
    [] rev = "P0b" -> scanAnswer_P0b(s, t, r)
    [] rev = "P0c" -> scanAnswer_P0c(s, t, r)
    [] rev = "P1" -> scanAnswer_P1(s, t, r)
    [] rev = "P2" -> scanAnswer_P2(s, t, r)

---------------------------------------------------------------------------
(* Answers of the buy endpoint. *)

\* The purchase announced without the voucher.
voucherAlert_none(s, r) == alert(s, "buy-ok", "")

\* alert(`... ${data.voucher.redeemUrl}`): without a voucher the property
\* read throws and the catch block runs.
voucherAlert(s, r) ==
  IF r.voucher THEN alert(s, "buy-ok", "voucher-url")
  ELSE alert(hideLoading(s), "buy-network", "")

\* P0a.
buyAnswer_P0a(s, r) ==
  LET s1 == hideLoading(s) IN
  IF ~JsonOk(r) THEN alert(s1, "buy-network", "")
  ELSE IF ~r.ok \/ ~r.success
  THEN alert(s1, "buy-failed", Or2(r.message, "Could not buy reward."))
  ELSE voucherAlert(showBalance(s1, r.newBalance), r)

\* P0b: the rewards list is loaded again after a purchase.
buyAnswer_P0b(s, r) ==
  LET s1 == hideLoading(s) IN
  IF ~JsonOk(r) THEN alert(s1, "buy-network", "")
  ELSE IF ~r.ok \/ ~r.success
  THEN alert(s1, "buy-failed", Or2(r.message, "Could not buy reward."))
  ELSE loadRewards(alert(IF r.newBalance # UndefinedNum
                         THEN setCoinBalance(s1, r.newBalance) ELSE s1,
                         "buy-ok", IF r.voucher THEN "voucher-url" ELSE ""))

\* P0c.
buyAnswer_P0c(s, r) ==
  LET s1 == hideLoading(s) IN
  IF ~JsonOk(r) THEN alert(s1, "buy-network", "")
  ELSE IF ~r.ok \/ ~r.success
  THEN alert(s1, "buy-failed", Or2(r.message, "Could not buy reward."))
  ELSE voucherAlert(showBalance(s1, r.newBalance), r)

\* P1: res.ok is not looked at.
buyAnswer_P1(s, r) ==
  LET s1 == hideLoading(s) IN
  IF ~JsonOk(r) THEN alert(s1, "buy-network", "")
  ELSE IF r.success THEN voucherAlert(showBalance(s1, r.newBalance), r)
  ELSE alert(s1, "buy-failed", Or2(r.message, "Could not buy reward."))

\* P2: the voucher link is opened, then the purchase is announced.
buyAnswer_P2(s, r) ==
  IF r.kind = "reject" THEN s
  ELSE IF ~r.ok
  THEN alert(hideLoading(s), "buy-failed", Or2(r.message, "Purchase failed"))
  ELSE LET s1 == updateCoins(hideLoading(s), r.newBalance)
           s2 == IF r.voucher THEN alert(s1, "open-link", "voucher-url")
                 ELSE s1
       IN alert(s2, "buy-ok", "")

buyAnswer(s, r) ==
  CASE rev = "P0a" -> buyAnswer_P0a(s, r)
    [] rev = "P0b" -> buyAnswer_P0b(s, r)
    [] rev = "P0c" -> buyAnswer_P0c(s, r)
    [] rev = "P1" -> buyAnswer_P1(s, r)
    [] rev = "P2" -> buyAnswer_P2(s, r)

\* loadRewards rendering its cards without the reward ids.
renderCards_unbound(rewards) == [i \in DOMAIN rewards |-> "undefined"]

\* The cards loadRewards renders: data-reward-id="${r.id}" of each BUY
\* button, in the order of data.rewards.
renderCards(rewards) == [i \in DOMAIN rewards |-> String(rewards[i])]

\* loadRewards (P0b) from the answer to its return: a failure or an empty
\* catalogue puts a message in place of the list.
rewardsAnswer(s, r) ==
  LET s1 == hideLoading(s) IN
  IF ~JsonOk(r) \/ ~r.ok THEN [s1 EXCEPT !.cards = <<>>]
  ELSE LET s2 == IF r.coins # UndefinedNum THEN setCoinBalance(s1, r.coins)
                 ELSE s1
       IN [s2 EXCEPT !.cards = renderCards(r.rewards)]

---------------------------------------------------------------------------
(* scanLoop: one animation frame.  code is what jsQR returned: found says  *)
(* whether the video was ready and a code was recognised, data is its text.*)
Decodes ==
  {[found |-> FALSE, data |-> <<>>]}
  \cup {[found |-> TRUE, data |-> d] : d \in Payloads}

\* The test that ends sampling.
Recognised(code) ==
  CASE rev \in {"F", "P0a", "P0b", "P1"} -> code.found /\ Trim(code.data) # <<>>
    [] OTHER -> code.found /\ code.data # <<>>

\* scanLoop decoding whether or not the scanning flag is set.
scanLoop_unflagged(s, code) ==
  IF Recognised(code)
  THEN handleQRCode(stopCamera([s EXCEPT !.scanning = FALSE]),
                    IF rev = "P1" THEN Trim(code.data) ELSE code.data)
  ELSE requestFrame(s)

\* scanLoop ending after one frame without a code.
scanLoop_once(s, code) ==
  IF ~s.scanning THEN s
  ELSE IF Recognised(code)
  THEN handleQRCode(stopCamera([s EXCEPT !.scanning = FALSE]),
                    IF rev = "P1" THEN Trim(code.data) ELSE code.data)
  ELSE s

\* scanLoop.  P1 first keeps the loop alive while #reward-modal is open.
scanLoop(s, code) ==
  IF rev = "P1" /\ s.rewardModalOpen THEN requestFrame(s)
  ELSE IF ~s.scanning THEN s
  ELSE IF Recognised(code)
  THEN handleQRCode(stopCamera([s EXCEPT !.scanning = FALSE]),
                    IF rev = "P1" THEN Trim(code.data) ELSE code.data)
  ELSE requestFrame(s)

---------------------------------------------------------------------------
(* The state machine. *)

GenIds == {"g1", "g2"}

\* The state of the script when the page has been parsed.
InitScript ==
  /\ rev \in Revs
  /\ tg \in ContextsOf(rev)
  /\ startParam \in IF rev = "P0b" /\ HasInitData(tg) THEN StartParams
                    ELSE {<<>>}
  /\ view \in ViewsOf(rev)
  /\ booted = "no"
  /\ authToken = NullVal
  /\ coinDisplay = 0
  /\ loading = FALSE
  /\ localStream = 0
  /\ live = {}
  /\ scanning = FALSE
  /\ rafPending = 0
  /\ gumPending = 0
  /\ timers = <<>>
  /\ tasks = <<>>
  /\ storage \in IF rev = "P2" /\ ~HasUserId(tg) THEN {"", "w1"} ELSE {""}
  /\ sessionKeys = {}
  /\ scanText = "idle"
  /\ loads = 1
  /\ cards = <<>>
  /\ leafletMap = 0
  /\ leafletMarkers = 0
  /\ mapReady = FALSE
  /\ rewardModalOpen = FALSE
  /\ told = UndefinedNum
  /\ behind = 0
  /\ failed = FALSE
  /\ shown = <<>>
  /\ sent = <<>>

\* A page without #map whose markup highlights the nav item of the active
\* view.  showRewardModal has no caller, so the modal of P1 stays closed.
Init == InitScript /\ hasMap = FALSE /\ navActive = {view} /\ track = FALSE

\* How many getUserMedia calls, requests and timers may be pending together:
\* the boot of F and P0b leaves two getUserMedia calls pending by itself.
PendingBound == MaxPending + (IF rev \in SetActiveTabRevs THEN 1 ELSE 0)

\* The model keeps within its bounds.
Fits(s) ==
  /\ s.gumPending <= MaxGum
  /\ s.rafPending <= MaxRaf
  /\ Len(s.tasks) <= MaxTasks
  /\ Len(s.timers) <= MaxTimers
  /\ Len(s.tasks) + Len(s.timers) + s.gumPending <= PendingBound
  /\ s.leafletMap <= MaxMaps

Commit(s) ==
  /\ Fits(s)
  /\ view' = s.view
  /\ booted' = s.booted
  /\ authToken' = s.authToken
  /\ coinDisplay' = s.coinDisplay
  /\ loading' = s.loading
  /\ localStream' = s.localStream
  /\ live' = s.live
  /\ scanning' = s.scanning
  /\ rafPending' = s.rafPending
  /\ gumPending' = s.gumPending
  /\ timers' = s.timers
  /\ tasks' = s.tasks
  /\ storage' = s.storage
  /\ sessionKeys' = s.sessionKeys
  /\ scanText' = s.scanText
  /\ navActive' = s.navActive
  /\ cards' = s.cards
  /\ leafletMap' = s.leafletMap
  /\ leafletMarkers' = s.leafletMarkers
  /\ mapReady' = s.mapReady
  /\ rewardModalOpen' = s.rewardModalOpen
  /\ told' = s.told
  /\ behind' = s.behind
  /\ failed' = s.failed
  /\ shown' = s.shown
  /\ sent' = s.sent
  /\ UNCHANGED <<rev, tg, startParam, loads, hasMap, track>>

RemoveAt(seq, i) == SubSeq(seq, 1, i - 1) \o SubSeq(seq, i + 1, Len(seq))

\* The DOMContentLoaded handler up to await initAuth().  gen is the id
\* Math.random would yield (P2 without stored id), "" otherwise.
DOMContentLoadedWith(gen) ==
  /\ booted = "no"
  /\ Commit(initAuth([St EXCEPT !.booted = "auth"], "boot", <<>>, gen))

DOMContentLoaded ==
  \E gen \in IF rev = "P2" /\ ~HasUserId(tg) /\ storage = "" THEN GenIds
             ELSE {""} :
    DOMContentLoadedWith(gen)

\* The balance the answer r to a request of the given kind carries:
\* userCoins of /api/rewards, newBalance of the scan and buy endpoints.
\* The answer to a redemption that redeemCode takes as a success.
Redeemed(r) == r.kind = "http" /\ r.ok /\ JsonOk(r) /\ r.success

\* History: redeemCode(start_param, "nfc") was called in this event, the
\* marker written, and it returned at its authToken test without a request.
Refused(s) ==
  [s EXCEPT !.failed = @ \/ (/\ track
                              /\ s.sessionKeys # sessionKeys
                              /\ \E k \in DOMAIN s.shown :
                                   s.shown[k].kind = "not-authenticated")]

Carried(kind, r) ==
  IF ~JsonOk(r) \/ kind = "auth" THEN UndefinedNum
  ELSE IF kind = "rewards" THEN r.coins
  ELSE r.newBalance

\* The state when the request of task i has been answered with r and its
\* handler is about to go on.  tasks is in dispatch order; the history
\* notes the balance of the answer to the newest request answered so far.
Answered(i, r) ==
  LET s0 == [St EXCEPT !.tasks = RemoveAt(@, i),
                       !.failed = @ \/ (track /\ tasks[i].caller = "nfc"
                                         /\ ~Redeemed(r))]
      v == Carried(tasks[i].kind, r)
  IN IF ~track THEN s0
     ELSE IF i <= behind THEN [s0 EXCEPT !.behind = @ - 1]
     ELSE IF v = UndefinedNum THEN s0
     ELSE [s0 EXCEPT !.told = v, !.behind = i - 1]

\* /auth/telegram answers task i with r (or the fetch rejects).
AuthResponseOn(i, r) ==
  /\ i \in DOMAIN tasks
  /\ tasks[i].kind = "auth"
  /\ LET t == tasks[i]
         s0 == Answered(i, r)
     IN Commit(AfterInitAuth(Refused(initAuthAnswer(s0, r)), t.caller, t.arg))

AuthResponse == \E i \in DOMAIN tasks, r \in AuthResps : AuthResponseOn(i, r)

\* startCamera after getUserMedia resolved with the stream id.
startCameraGranted(s, id) ==
  requestFrame([s EXCEPT !.localStream = id,
                         !.live = @ \cup {id},
                         !.scanText = IF rev = "P2" THEN @ ELSE "align",
                         !.scanning = TRUE])

\* The catch block of startCamera asking for the camera once more.
startCameraFailed_retry(s) == startCamera(s)

\* The catch block of startCamera: the scan text turns into an error (P2:
\* an alert).
startCameraFailed(s) ==
  IF rev = "P2" THEN alert(s, "camera", "Camera permission required")
  ELSE [s EXCEPT !.scanText = "error"]

\* getUserMedia resolves: the rest of startCamera.
CameraGranted ==
  /\ gumPending > 0
  /\ Cardinality(live) < MaxStreams
  /\ LET id == CHOOSE n \in 1 .. MaxStreams :
                 n \notin live /\ \A m \in 1 .. n - 1 : m \in live
     IN Commit(startCameraGranted([St EXCEPT !.gumPending = @ - 1], id))

\* getUserMedia rejects: the catch block of startCamera.
CameraDenied ==
  /\ gumPending > 0
  /\ Commit(startCameraFailed([St EXCEPT !.gumPending = @ - 1]))

\* An animation frame: scanLoop runs and jsQR returns code.
FrameWith(code) ==
  /\ rafPending > 0
  /\ Commit(scanLoop([St EXCEPT !.rafPending = @ - 1], code))

Frame == \E code \in Decodes : FrameWith(code)

\* /api/attractions/scan answers task i with r (or the fetch rejects).
ScanResponseOn(i, r) ==
  /\ i \in DOMAIN tasks
  /\ tasks[i].kind = "scan"
  /\ Commit(scanAnswer(Answered(i, r), tasks[i], r))

ScanResponse == \E i \in DOMAIN tasks, r \in ScanResps : ScanResponseOn(i, r)

\* A click on the nav item of view v.  F and P0b bind the nav items after
\* await initAuth(); switchTab is called from the markup.  The browser
\* fires DOMContentLoaded before it delivers any click.
TabClickOn(v) ==
  /\ booted # "no"
  /\ rev \in SetActiveTabRevs => booted = "done"
  /\ Commit(IF rev \in SetActiveTabRevs THEN setActiveTab(St, v)
            ELSE switchTab(St, v))

TabClick == \E v \in ViewsOf(rev) : TabClickOn(v)

\* A switchTab timeout fires.
Timer ==
  /\ timers # <<>>
  /\ Commit(switchTabTimeout(St, Head(timers)))

\* data-reward-id of the clicked button (<<>>: the attribute is missing).
RewardIds == {<<>>, <<"r1">>}

\* The .btn-buy click handler up to its await.
buyClick(s, rewardId) ==
  CASE rev \in {"P0a", "P0b", "P1"} -> buyClick_inline(s, rewardId)
    [] rev = "P0c" ->
         IF rewardId = <<>> THEN alert(s, "missing-reward-id", "")
         ELSE ensureAuth(s, "buy", rewardId)
    [] rev = "P2" ->
         IF rewardId = <<>> THEN alert(s, "missing-reward-id", "")
         ELSE buyReward(s, rewardId)

\* A click on a BUY button.  F has no BUY handler; P0b binds it at load,
\* the others after await initAuth().
BuyClickOn(rewardId) ==
  /\ rev # "F"
  /\ booted # "no"
  /\ rev # "P0b" => booted = "done"
  /\ Commit(buyClick(St, rewardId))

BuyClick == \E rewardId \in RewardIds : BuyClickOn(rewardId)

\* /api/rewards/{id}/buy answers task i with r (or the fetch rejects).
BuyResponseOn(i, r) ==
  /\ i \in DOMAIN tasks
  /\ tasks[i].kind = "buy"
  /\ Commit(buyAnswer(Answered(i, r), r))

BuyResponse == \E i \in DOMAIN tasks, r \in BuyResps : BuyResponseOn(i, r)

\* /api/rewards answers task i with r (or the fetch rejects).
RewardsResponseOn(i, r) ==
  /\ i \in DOMAIN tasks
  /\ tasks[i].kind = "rewards"
  /\ Commit(rewardsAnswer(Answered(i, r), r))

RewardsResponse ==
  \E i \in DOMAIN tasks, r \in RewardsResps : RewardsResponseOn(i, r)

Next ==
  \/ DOMContentLoaded
  \/ AuthResponse
  \/ CameraGranted
  \/ CameraDenied
  \/ Frame
  \/ ScanResponse
  \/ TabClick
  \/ Timer
  \/ BuyClick
  \/ BuyResponse
  \/ RewardsResponse

Spec == Init /\ [][Next]_vars

---------------------------------------------------------------------------
(* Page loads that share localStorage and sessionStorage: the revisions    *)
(* that keep something there (P0b the redeemed start params, P2 the        *)
(* web_user_id), on a page whose markup has the scan view active.          *)

ReloadRevs == {"P0b", "P2"}

InitReload == Init /\ rev \in ReloadRevs /\ view = "scan-view"

\* The page is loaded again: the script starts from its initial state, the
\* requests, timers and streams of the old page are gone, the two storages
\* are kept.
Reload ==
  /\ booted # "no"
  /\ loads < MaxLoads
  /\ loads' = loads + 1
  /\ view' = "scan-view"
  /\ booted' = "no"
  /\ authToken' = NullVal
  /\ coinDisplay' = 0
  /\ loading' = FALSE
  /\ localStream' = 0
  /\ live' = {}
  /\ scanning' = FALSE
  /\ rafPending' = 0
  /\ gumPending' = 0
  /\ timers' = <<>>
  /\ tasks' = <<>>
  /\ scanText' = "idle"
  /\ navActive' = {"scan-view"}
  /\ cards' = <<>>
  /\ leafletMap' = 0
  /\ leafletMarkers' = 0
  /\ mapReady' = FALSE
  /\ rewardModalOpen' = FALSE
  /\ told' = UndefinedNum
  /\ behind' = 0
  /\ shown' = <<>>
  /\ sent' = <<>>
  /\ UNCHANGED <<rev, tg, startParam, storage, sessionKeys, hasMap, track,
                 failed>>

NextReload ==
  \/ DOMContentLoaded
  \/ AuthResponse
  \/ CameraGranted
  \/ CameraDenied
  \/ Frame
  \/ ScanResponse
  \/ Reload

SpecReload == InitReload /\ [][NextReload]_vars

---------------------------------------------------------------------------
(* Tab switching on any markup: with or without #map, and with any nav     *)
(* items highlighted at load.                                              *)

InitTabs ==
  /\ InitScript
  /\ hasMap \in BOOLEAN
  /\ navActive \in SUBSET ViewsOf(rev)
  /\ track = FALSE

NextTabs ==
  \/ DOMContentLoaded
  \/ AuthResponse
  \/ CameraGranted
  \/ CameraDenied
  \/ TabClick
  \/ Timer
  \/ RewardsResponse

SpecTabs == InitTabs /\ [][NextTabs]_vars

---------------------------------------------------------------------------
(* The revisions that bootstrap the identity again from a handler (P0c by  *)
(* ensureAuth, P1 by handleQRCode), on the scan tab: scanning and buying   *)
(* without tab switches.                                                   *)

RebootstrapRevs == {"P0c", "P1"}

InitRebootstrap == Init /\ rev \in RebootstrapRevs /\ view = "scan-view"

NextRebootstrap ==
  \/ DOMContentLoaded
  \/ AuthResponse
  \/ CameraGranted
  \/ CameraDenied
  \/ Frame
  \/ ScanResponse
  \/ BuyClick
  \/ BuyResponse

SpecRebootstrap == InitRebootstrap /\ [][NextRebootstrap]_vars

---------------------------------------------------------------------------
(* P0b, the revision that refreshes the balance from three endpoints, with *)
(* the history of which answer belongs to the newest request.  The page is *)
(* opened in Telegram by a user who denies the camera: the scan requests   *)
(* are those of the deep link.                                             *)

InitBalance ==
  /\ InitScript
  /\ rev = "P0b"
  /\ tg = "full"
  /\ hasMap = FALSE
  /\ navActive = {view}
  /\ track = TRUE

NextBalance ==
  \/ DOMContentLoaded
  \/ AuthResponse
  \/ CameraDenied
  \/ ScanResponse
  \/ TabClick
  \/ BuyClick
  \/ BuyResponse
  \/ RewardsResponse

SpecBalance == InitBalance /\ [][NextBalance]_vars

---------------------------------------------------------------------------
(* Properties.  shown and sent hold what the last event showed and sent,   *)
(* so a state predicate on them speaks of every event of every run.        *)

Endpoints(reqs) == {reqs[i].ep : i \in DOMAIN reqs}
AlertKinds(alerts) == {alerts[i].kind : i \in DOMAIN alerts}
AlertTexts(alerts) == {alerts[i].text : i \in DOMAIN alerts}

\* The revisions that authenticate with Telegram login data only.
TelegramOnlyRevs == {"F", "P0a", "P0b", "P0c"}

\* C1: a decoded payload or deep-link code that is empty or blank is never
\* submitted: no request to /api/attractions/scan carries a body whose
\* trimmed text is empty.
C1_BlankPayloadNeverSubmitted ==
  \A i \in DOMAIN sent : sent[i].ep = "scan" => Trim(sent[i].body) # <<>>

\* C2 as claimed: a BUY click with authToken unset shows an alert and sends
\* no HTTP request of any kind.
C2_BuyUnauthSendsNothing ==
  [][\A rewardId \in RewardIds :
       (~Truthy(authToken) /\ BuyClickOn(rewardId))
         => (sent' = <<>> /\ shown' # <<>>)]_vars

\* C2 as amended: a BUY click with authToken unset never sends the buy
\* request while the token is unset; it ends with an alert unless it
\* re-runs initAuth (P0c, ensureAuth), which sends at most one request to
\* /auth/telegram; and when that initAuth returns without a token the user
\* is told and nothing is sent.
C2_BuyUnauthNeverReachesBuy ==
  [][/\ \A rewardId \in RewardIds :
          (~Truthy(authToken) /\ BuyClickOn(rewardId))
            => /\ "buy" \notin Endpoints(sent')
               /\ sent' = <<>> => shown' # <<>>
               /\ sent' # <<>> =>
                    rev = "P0c" /\ Len(sent') = 1 /\ sent'[1].ep = "auth"
     /\ \A i \in DOMAIN tasks, r \in AuthResps :
          (tasks[i].caller = "buy" /\ AuthResponseOn(i, r)
             /\ ~Truthy(authToken'))
            => /\ sent' = <<>>
               /\ "not-authenticated" \in AlertKinds(shown')
     /\ \A i \in DOMAIN sent' :
          sent'[i].ep = "buy" => Truthy(sent'[i].bearer)]_vars

\* A BUY click was short-circuited: the handler's own alert, nothing sent.
C2_Witness ==
  /\ rev \in {"P0a", "P0c", "P1"}
  /\ booted = "done"
  /\ ~Truthy(authToken)
  /\ "Not authenticated yet." \in AlertTexts(shown)
  /\ sent = <<>>

\* A step in which stopCamera is called: a switch to a view other than the
\* scan view, or scanLoop recognising a code.
StopCameraRuns ==
  \/ \E v \in Views \ {"scan-view"} :
       rev \in SetActiveTabRevs /\ TabClickOn(v)
  \/ timers # <<>> /\ Head(timers) # "scan-view" /\ Timer
  \/ \E code \in Decodes : scanning /\ Recognised(code) /\ FrameWith(code)

\* C3: when stopCamera has returned, no stream acquired through startCamera
\* has live tracks, whichever path called it.
C3_StopCameraStopsAllTracks == [][StopCameraRuns => live' = {}]_vars

\* C4: at most one acquired media stream has live tracks.
C4_OneLiveStream == Cardinality(live) <= 1

\* C5 as claimed: without Telegram context and without a stored fallback
\* id, authToken stays unset and no scan or purchase request is sent.
C5_NoIdentityNoRequests ==
  (tg = "none" /\ storage = "")
    => /\ ~Truthy(authToken)
       /\ "scan" \notin Endpoints(sent)
       /\ "buy" \notin Endpoints(sent)

\* C5 as amended: in the revisions that authenticate with Telegram login
\* data only, a page load without Telegram context leaves authToken unset
\* and sends no request at all.
C5_TelegramOnlyNoRequests ==
  (rev \in TelegramOnlyRevs /\ tg = "none")
    => ~Truthy(authToken) /\ sent = <<>> /\ tasks = <<>>

\* Without Telegram context, a scan or purchase was attempted and refused.
C5_Witness ==
  /\ rev \in TelegramOnlyRevs
  /\ tg = "none"
  /\ booted = "done"
  /\ "not-authenticated" \in AlertKinds(shown)

\* The identity exchange failed.
AuthFailed(r) == r.kind = "reject" \/ ~r.ok \/ r.body # "json"

\* C6: a failed identity exchange shows an error of initAuth and leaves
\* authToken unset; authToken is set only from a 2xx response.
C6_AuthFailureTold ==
  [][/\ \A i \in DOMAIN tasks, r \in AuthResps :
          (AuthFailed(r) /\ AuthResponseOn(i, r))
            => /\ AlertKinds(shown') \cap {"auth-connect", "auth-failed"} # {}
               /\ ~Truthy(authToken) => ~Truthy(authToken')
     /\ (Truthy(authToken') /\ authToken' # authToken)
          => \E i \in DOMAIN tasks, r \in AuthResps :
               ~AuthFailed(r) /\ AuthResponseOn(i, r)]_vars

\* A step in which handleQRCode or redeemCode comes to its check of the
\* token (after the initAuth it may retry) and finds none.
ScanRefused ==
  \/ \E code \in Decodes :
       /\ scanning /\ Recognised(code) /\ ~Truthy(authToken)
       /\ FrameWith(code)
       /\ "auth" \notin Endpoints(sent')
  \/ \E i \in DOMAIN tasks, r \in AuthResps :
       /\ tasks[i].caller = "scan"
       /\ AuthResponseOn(i, r)
       /\ ~Truthy(authToken')
  \/ \E i \in DOMAIN tasks, r \in AuthResps :
       /\ rev = "P0b" /\ ~AuthFailed(r) /\ ~Truthy(r.token)
       /\ Trim(startParam) # <<>> /\ startParam \notin sessionKeys
       /\ AuthResponseOn(i, r)

\* C7: a scan submission attempted without a token sends no request to
\* /api/attractions/scan and tells the user they are not authenticated.
C7_ScanUnauthTold ==
  [][/\ ScanRefused
          => /\ "scan" \notin Endpoints(sent')
             /\ "not-authenticated" \in AlertKinds(shown')
     /\ \A i \in DOMAIN sent' :
          sent'[i].ep = "scan" => Truthy(sent'[i].bearer)]_vars

\* A recognised code was refused for want of a token.
C7_Witness ==
  /\ ~Truthy(authToken)
  /\ booted = "done"
  /\ AlertTexts(shown) \cap
       {"Not authenticated yet. Open the app as a Telegram Mini App.",
        "Not authenticated yet. Try reloading the page."} # {}
  /\ "scan" \notin Endpoints(sent)

\* C8: after a successful identity exchange whose answer carries the
\* balance N, the displayed balance is N when initAuth has returned.
C8_BootBalanceShown ==
  [][\A i \in DOMAIN tasks, r \in AuthResps :
       (~AuthFailed(r) /\ r.coins # UndefinedNum /\ AuthResponseOn(i, r))
         => coinDisplay' = r.coins]_vars

\* F right after a bootstrap that answered balance 1: both startCamera
\* calls of the DOMContentLoaded handler are pending, nothing was scanned.
C8_Witness ==
  /\ rev = "F"
  /\ Truthy(authToken)
  /\ coinDisplay = 1
  /\ gumPending = 2 /\ live = {} /\ rafPending = 0 /\ shown = <<>>

\* The scan endpoint accepted the code with newBalance b.
ScanAccepted(r) ==
  JsonOk(r) /\ r.ok /\ r.success /\ r.newBalance # UndefinedNum

\* C9: after a successful redemption with addedCoins k and newBalance b the
\* displayed balance is b, whatever was displayed before and whatever k: no
\* step is the handling of such an answer and leaves another balance shown.
C9_ScanBalanceIsNewBalance ==
  [][\A i \in DOMAIN tasks :
       tasks[i].kind = "scan"
         => \A r \in ScanResps :
              ~(/\ ScanAccepted(r)
                /\ coinDisplay' # r.newBalance
                /\ ScanResponseOn(i, r))]_vars

\* A scan was accepted and the balance 1 is shown.
C9_Witness ==
  /\ "scan-ok" \in AlertKinds(shown)
  /\ coinDisplay = 1
  /\ ~loading

\* C10: when the scan endpoint answers HTTP 200 with success:false and a
\* message m, an alert holding m is shown and the displayed balance is the
\* one shown before.
C10_RefusedScanToldBalanceKept ==
  [][\A i \in DOMAIN tasks, r \in ScanResps :
       (JsonOk(r) /\ r.ok /\ ~r.success /\ r.message # ""
          /\ ScanResponseOn(i, r))
         => /\ r.message \in AlertTexts(shown')
            /\ coinDisplay' = coinDisplay]_vars

\* A frame in which scanLoop recognises a code and handleQRCode sends the
\* scan request.
ScanDispatchedByFrame ==
  \E code \in Decodes : FrameWith(code) /\ "scan" \in Endpoints(sent')

\* C11: when the scan path dispatches the POST to /api/attractions/scan,
\* sampling has halted and the camera is released: the scanning flag is
\* false, localStream is null and no acquired stream has live tracks.
C11_ReleasedBeforeSubmission ==
  [][ScanDispatchedByFrame
       => scanning' = FALSE /\ localStream' = 0 /\ live' = {}]_vars

\* A step in which handleQRCode ends in a failure: it finds no token, or the
\* request it awaited is rejected, answered with a status that is not 2xx,
\* with a body that is not JSON, or with success:false.
ScanFailed ==
  \/ \E code \in Decodes :
       /\ scanning /\ Recognised(code) /\ ~Truthy(authToken)
       /\ FrameWith(code)
       /\ "auth" \notin Endpoints(sent')
  \/ \E i \in DOMAIN tasks, r \in AuthResps :
       /\ tasks[i].caller = "scan"
       /\ AuthResponseOn(i, r)
       /\ ~Truthy(authToken')
  \/ \E i \in DOMAIN tasks, r \in ScanResps :
       /\ tasks[i].caller = "qr"
       /\ ~(JsonOk(r) /\ r.ok /\ r.success)
       /\ ScanResponseOn(i, r)

\* C12: after handleQRCode ends in any failure, startCamera is invoked.
C12_FailureRestartsCamera == [][ScanFailed => gumPending' > gumPending]_vars

\* C13: when getUserMedia rejects, startCamera shows an error (the scan
\* text in its error state, or an alert) and that call neither sets the
\* scanning flag, nor schedules scanLoop, nor asks for the camera again.
C13_CameraFailureShownNoRetry ==
  [][CameraDenied
       => /\ scanText' = "error" \/ "camera" \in AlertKinds(shown')
          /\ scanning' = scanning
          /\ rafPending' = rafPending
          /\ gumPending' = gumPending - 1
          /\ localStream' = localStream /\ live' = live]_vars

\* The camera was refused: the error is on the scan text, nothing samples.
C13_Witness ==
  /\ scanText = "error"
  /\ booted = "done"
  /\ ~scanning /\ gumPending = 0 /\ rafPending = 0 /\ live = {}

\* The request failed by a rejected fetch or a status that is not 2xx.
RequestFailed(r) == r.kind = "reject" \/ ~r.ok

\* C14: every scan or purchase request that fails by a rejected fetch or a
\* status that is not 2xx ends in an alert telling the user of the failure.
C14_RequestFailureTold ==
  [][/\ \A i \in DOMAIN tasks, r \in ScanResps :
          (RequestFailed(r) /\ ScanResponseOn(i, r))
            => AlertKinds(shown') \cap {"scan-failed", "scan-network"} # {}
     /\ \A i \in DOMAIN tasks, r \in BuyResps :
          (RequestFailed(r) /\ BuyResponseOn(i, r))
            => AlertKinds(shown') \cap {"buy-failed", "buy-network"} # {}]_vars

\* C15: the loading overlay never stays active when no scan, purchase or
\* rewards request is in flight and no tab switch is pending.
C15_OverlayHiddenWhenIdle ==
  loading =>
    \/ \E i \in DOMAIN tasks : tasks[i].kind \in {"scan", "buy", "rewards"}
    \/ timers # <<>>

\* How many requests of reqs go to the endpoint ep.
CountEp(reqs, ep) == Cardinality({i \in DOMAIN reqs : reqs[i].ep = ep})

\* How many requests to the endpoint ep are in flight in the tasks tsk.
InFlight(tsk, ep) == Cardinality({i \in DOMAIN tsk : tsk[i].kind = ep})

\* C16: one event dispatches at most one scan request and at most one buy
\* request, and never in the event that takes the answer to a request of
\* the same endpoint: a dispatch adds one to the requests in flight, so a
\* failed request is not sent again by its own handler.
C16_NoRetries ==
  [][\A ep \in {"scan", "buy"} :
       /\ CountEp(sent', ep) <= 1
       /\ CountEp(sent', ep) = 1
            => InFlight(tasks', ep) = InFlight(tasks, ep) + 1]_vars

\* A scan failed, the user was told, and nothing was sent again.
C16_Witness ==
  /\ AlertKinds(shown) \cap {"scan-failed", "scan-network"} # {}
  /\ sent = <<>>
  /\ tasks = <<>>

\* C17: every request to the scan, rewards and buy endpoints carries a
\* token returned by the identity exchange as its bearer, never null or
\* undefined.
C17_BearerIsToken ==
  \A i \in DOMAIN sent :
    sent[i].ep \in {"scan", "rewards", "buy"} => sent[i].bearer \in Tokens

\* C18: no request to /api/rewards/{id}/buy is dispatched before the
\* initAuth call of the DOMContentLoaded handler has returned.
C18_NoBuyBeforeBootstrap == "buy" \in Endpoints(sent) => booted = "done"

\* P0b, whose BUY handler is bound at load: a click during the bootstrap
\* was refused.
C18_Witness ==
  /\ rev = "P0b"
  /\ booted = "auth"
  /\ "Not authenticated yet." \in AlertTexts(shown)
  /\ sent = <<>>

\* The purchase succeeded and the answer carries the balance and a voucher.
BuyAccepted(r) ==
  JsonOk(r) /\ r.ok /\ r.success /\ r.newBalance # UndefinedNum /\ r.voucher

C19_IdentifierPriority ==
  [][/\ storage # "" => storage' = storage
     /\ \A i \in DOMAIN sent' :
          (rev = "P2" /\ sent'[i].ep = "auth")
            => /\ HasUserId(tg)
                    => sent'[i].body = <<"tg-user">> /\ storage' = storage
               /\ ~HasUserId(tg)
                    => storage' # "" /\ sent'[i].body = <<storage'>>]_vars

\* The second load sends the id the first load generated and stored.
C19_Witness ==
  /\ rev = "P2"
  /\ loads = 2
  /\ storage \in GenIds
  /\ booted = "auth"
  /\ sent = <<Request("auth", NullVal, <<storage>>)>>

\* The purchase did not succeed: the fetch rejected, the status is not 2xx,
\* or the body does not say success.
BuyFailed(r) == ~(JsonOk(r) /\ r.ok /\ r.success)

\* C21: a purchase that does not succeed leaves the displayed balance as it
\* was.
C21_FailedPurchaseKeepsBalance ==
  [][\A i \in DOMAIN tasks, r \in BuyResps :
       (BuyFailed(r) /\ BuyResponseOn(i, r))
         => coinDisplay' = coinDisplay]_vars

\* redeemCode got an answer that it reports as a failure.
RedeemFailed(r) == r.kind = "http" /\ ~(r.ok /\ JsonOk(r) /\ r.success)

\* C23 (P0b): the failure alert of redeemCode carries the message field of
\* the answer if it is non-empty, else its error field if that is non-empty,
\* else the raw body if it is non-empty, else 'HTTP <status>'.
C23_RedeemFailureText ==
  [][\A i \in DOMAIN tasks, r \in ScanResps :
       (rev = "P0b" /\ RedeemFailed(r) /\ ScanResponseOn(i, r))
         => shown' = <<Alert("scan-failed",
                             IF JsonOk(r) /\ r.message # "" THEN r.message
                             ELSE IF JsonOk(r) /\ r.error # "" THEN r.error
                             ELSE IF r.body # "empty" THEN "<raw body>"
                             ELSE "HTTP <status>")>>]_vars

\* A failed redemption was reported with the HTTP status, for want of a body.
C23_Witness ==
  /\ rev = "P0b"
  /\ shown = <<Alert("scan-failed", "HTTP <status>")>>

\* jsQR found a code whose text is not empty.
NonEmptyPayload(code) == code.found /\ code.data # <<>>

\* C24: while the scanning flag is set, a scanLoop callback whose frame
\* yields no non-empty payload requests the next frame, leaves the flag set
\* and submits nothing; so a callback ends without a successor only when
\* the flag is cleared or the frame yields a non-empty payload.
C24_SamplingContinues ==
  [][(scanning /\ rafPending > 0)
       => \A code \in Decodes :
            (~NonEmptyPayload(code) /\ FrameWith(code))
              => rafPending' = rafPending /\ scanning' /\ sent' = <<>>]_vars

\* The camera is live and one scanLoop callback is pending.
C24_Witness ==
  /\ scanning
  /\ localStream # 0
  /\ rafPending = 1
  /\ tasks = <<>>
  /\ gumPending = 0

\* C25: a scanLoop callback that finds the scanning flag cleared dispatches
\* nothing, shows nothing, requests no further frame and changes nothing
\* else, whatever the frame would decode to.
C25_CancelledCallbackDoesNothing ==
  [][\A code \in Decodes :
       (~scanning /\ FrameWith(code))
         => /\ rafPending' = rafPending - 1
            /\ sent' = <<>> /\ shown' = <<>>
            /\ UNCHANGED <<tasks, gumPending, scanning, localStream, live,
                           loading, coinDisplay, scanText, view>>]_vars

\* The camera was granted and then stopped on another tab, and the pending
\* callback has run: nothing is pending any more.
C25_Witness ==
  /\ view # "scan-view"
  /\ scanText = "align"
  /\ ~scanning
  /\ localStream = 0
  /\ rafPending = 0
  /\ gumPending = 0
  /\ tasks = <<>>
  /\ timers = <<>>

\* No getUserMedia call and no scan request is pending.
Quiescent == gumPending = 0 /\ InFlight(tasks, "scan") = 0

\* C26: in every quiescent state in which the active view is not scan-view,
\* localStream is null and the scanning flag is false.
C26_CameraOnlyOnScanTab ==
  (Quiescent /\ view # "scan-view") => (localStream = 0 /\ ~scanning)

\* Requests in flight that redeemCode(start_param, "nfc") dispatched.
DeepLinkInFlight(tsk) ==
  Cardinality({i \in DOMAIN tsk : tsk[i].caller = "nfc"})

\* C27 (P0b, over page loads on one sessionStorage): redeemCode(start_param,
\* "nfc") is invoked only in the continuation of an identity exchange that
\* was answered 2xx, only for a non-empty start_param that sessionStorage
\* does not hold yet, and that invocation records the start_param in
\* sessionStorage, where it stays; so it is invoked at most once.
C27_DeepLinkOnce ==
  [][/\ sessionKeys \subseteq sessionKeys'
     /\ DeepLinkInFlight(tasks') > DeepLinkInFlight(tasks)
          => sessionKeys' # sessionKeys
     /\ sessionKeys' # sessionKeys
          => /\ startParam # <<>>
             /\ startParam \notin sessionKeys
             /\ sessionKeys' = sessionKeys \cup {startParam}
             /\ \E i \in DOMAIN tasks, r \in AuthResps :
                  JsonOk(r) /\ r.ok /\ AuthResponseOn(i, r)]_vars

\* The second load has authenticated and has not redeemed the start_param
\* that an earlier load redeemed.
C27_Witness ==
  /\ rev = "P0b"
  /\ loads = 2
  /\ startParam = <<"a">>
  /\ startParam \in sessionKeys
  /\ booted = "done"
  /\ authToken \in Tokens
  /\ gumPending = 2
  /\ tasks = <<>>
  /\ shown = <<>>

\* C22 (P0b): each setActiveTab("rewards-view") dispatches exactly one GET
\* /api/rewards, with the token, when there is a token, and nothing when
\* authToken is unset; and when the catalogue is answered, the BUY buttons
\* rendered carry the ids of the rewards of the answer, one card per reward,
\* in order.
C22_RewardsViewFetchesCatalog ==
  [][/\ (rev = "P0b" /\ TabClickOn("rewards-view"))
          => sent' = IF Truthy(authToken)
                     THEN <<Request("rewards", authToken, <<>>)>>
                     ELSE <<>>
     /\ \A i \in DOMAIN tasks, r \in RewardsResps :
          (JsonOk(r) /\ r.ok /\ RewardsResponseOn(i, r))
            => cards' = r.rewards]_vars

\* The rewards view is open and shows the two cards of the catalogue.
C22_Witness ==
  /\ rev = "P0b"
  /\ view = "rewards-view"
  /\ cards = <<"r1", "r2">>
  /\ InFlight(tasks, "rewards") = 0
  /\ ~loading

\* The map variables are as initMapOnce leaves them.
MapConsistent ==
  /\ leafletMap <= 1
  /\ mapReady => (hasMap /\ leafletMap = 1 /\ leafletMarkers = MapPoints)
  /\ ~mapReady => (leafletMap = 0 /\ leafletMarkers = 0)

\* C28: the Leaflet map is constructed at most once; once mapReady is set,
\* leafletMarkers holds one marker per MAP_POINTS entry and no later step
\* changes the map, its markers or mapReady; without a #map element
\* mapReady stays false and no map is constructed.
C28_MapInitialisedOnce ==
  [][/\ MapConsistent'
     /\ mapReady => UNCHANGED <<leafletMap, leafletMarkers, mapReady>>]_vars

\* The map was built on a visit of the map tab and the scan tab is open
\* again.
C28_Witness ==
  /\ mapReady
  /\ leafletMap = 1
  /\ leafletMarkers = MapPoints
  /\ view = "scan-view"
  /\ booted = "done"

C30_LastClickWins ==
  [][/\ \A v \in Views :
          (rev \notin SetActiveTabRevs /\ TabClickOn(v))
            => timers' = Append(timers, v)
     /\ Timer
          => /\ timers' = Tail(timers)
             /\ Len(timers) = 1
                  => /\ view' = timers[1]
                     /\ ~loading'
                     /\ IF timers[1] = "scan-view"
                        THEN gumPending' = gumPending + 1
                        ELSE /\ ~scanning'
                             /\ localStream' = 0
                             /\ gumPending' = gumPending]_vars

\* The camera was running on the scan view and the last timer has left
\* another view active, the camera stopped and the overlay hidden.
C30_Witness ==
  /\ rev \notin SetActiveTabRevs
  /\ timers = <<>>
  /\ view # "scan-view"
  /\ scanText = "align"
  /\ localStream = 0
  /\ ~scanning
  /\ gumPending = 0
  /\ ~loading

\* What the event that called ensureAuth did up to the next await: with a
\* token nothing goes to /auth/telegram and the caller goes on to its own
\* request; without one, initAuth either gives up at once (the caller is
\* told false and refuses) or sends one request to /auth/telegram.
EnsureAuthEntry(own) ==
  IF Truthy(authToken)
  THEN Endpoints(sent') = {own} /\ Len(sent') = 1
  ELSE IF LoginMissing(tg)
  THEN sent' = <<>> /\ "not-authenticated" \in AlertKinds(shown')
  ELSE Endpoints(sent') = {"auth"} /\ Len(sent') = 1

\* C31 (P0c): ensureAuth sends nothing to /auth/telegram when a token is
\* held and at most one request otherwise; its caller goes on (ensureAuth
\* returned true) exactly when authToken is set when ensureAuth returns, and
\* refuses (false) exactly when it is not.
C31_EnsureAuth ==
  [][rev = "P0c"
       => /\ CountEp(sent', "auth") <= 1
          /\ "auth" \in Endpoints(sent') => ~Truthy(authToken)
          /\ \A id \in RewardIds \ {<<>>} :
               BuyClickOn(id) => EnsureAuthEntry("buy")
          /\ (scanning /\ rafPending > 0)
               => \A code \in Decodes :
                    (NonEmptyPayload(code) /\ FrameWith(code))
                      => EnsureAuthEntry("scan")
          /\ \A i \in DOMAIN tasks :
               (tasks[i].kind = "auth" /\ tasks[i].caller # "boot")
                 => \A r \in AuthResps :
                      AuthResponseOn(i, r)
                        => /\ Truthy(authToken')
                                <=> Endpoints(sent') = {tasks[i].caller}
                           /\ ~Truthy(authToken')
                                <=> "not-authenticated"
                                       \in AlertKinds(shown')]_vars

\* A scanned code found no token and ensureAuth has sent the identity
\* exchange again.
C31_Witness ==
  /\ rev = "P0c"
  /\ booted = "done"
  /\ ~Truthy(authToken)
  /\ sent = <<Request("auth", NullVal, <<"initData">>)>>
  /\ \E i \in DOMAIN tasks : tasks[i].kind = "auth" /\ tasks[i].caller = "scan"

\* C32: in every reachable state at most one animation-frame callback for
\* scanLoop is pending.
C32_OneScanLoopChain == rafPending <= 1

\* C33: at most one request to /api/attractions/scan is in flight.
C33_OneScanInFlight == InFlight(tasks, "scan") <= 1

\* C34: the loading overlay is active in every state in which a scan,
\* purchase or rewards request is in flight.
C34_OverlayWhileInFlight ==
  (\E i \in DOMAIN tasks : tasks[i].kind \in {"scan", "buy", "rewards"})
    => loading

\* C35 (P0b): once no scan, purchase or rewards request is in flight, the
\* displayed balance is the one carried by the answer to the request that
\* was dispatched last among the answered requests that carried a balance.
C35_LatestDispatchedWins ==
  (/\ track
   /\ told # UndefinedNum
   /\ \A i \in DOMAIN tasks : tasks[i].kind \notin {"scan", "buy", "rewards"})
    => coinDisplay = told

\* C36: whenever the scanning flag is true, localStream refers to an
\* acquired stream whose tracks have not been stopped.
C36_ScanningHoldsStream == scanning => (localStream # 0 /\ localStream \in live)

\* The camera is sampling on a stream although a later acquisition failed.
C36_Witness ==
  /\ scanning
  /\ localStream \in live
  /\ rafPending > 0
  /\ scanText = "error"

\* C37: once authToken holds a token it is never cleared or replaced, and a
\* request goes to /auth/telegram only while authToken is unset.
C37_TokenStable ==
  [][/\ authToken \in Tokens => authToken' = authToken
     /\ "auth" \in Endpoints(sent') => ~Truthy(authToken)]_vars

---------------------------------------------------------------------------
(* The deep link of P0b over page loads on one sessionStorage, with the    *)
(* history of failed redemptions kept.                                     *)

InitDeepLink ==
  /\ InitScript
  /\ rev = "P0b"
  /\ view = "scan-view"
  /\ hasMap = FALSE
  /\ navActive = {view}
  /\ track = TRUE

NextDeepLink ==
  \/ DOMContentLoaded
  \/ AuthResponse
  \/ CameraGranted
  \/ CameraDenied
  \/ Frame
  \/ ScanResponse
  \/ Reload

SpecDeepLink == InitDeepLink /\ [][NextDeepLink]_vars

\* C38 (P0b, over page loads on one sessionStorage): a start_param is never
\* taken out of sessionStorage; a request of redeemCode(start_param, "nfc")
\* is dispatched only in an event that has written the start_param there;
\* and once a redemption of the start_param has failed (no token, network
\* error, non-2xx, success false), no event of this or a later page load
\* dispatches another one.
C38_FailedDeepLinkNotResubmitted ==
  [][/\ sessionKeys \subseteq sessionKeys'
     /\ DeepLinkInFlight(tasks') > DeepLinkInFlight(tasks)
          => (startParam \notin sessionKeys /\ startParam \in sessionKeys')
     /\ failed => /\ startParam \in sessionKeys
                  /\ DeepLinkInFlight(tasks') <= DeepLinkInFlight(tasks)]_vars

\* A later page load has authenticated, after a redemption of the
\* start_param had failed on an earlier one, and has sent nothing more.
C38_Witness ==
  /\ failed
  /\ loads = MaxLoads
  /\ startParam = <<"a">>
  /\ booted = "done"
  /\ authToken \in Tokens
  /\ tasks = <<>>
  /\ sent = <<>>

====
